---- MODULE Spec2Model ----
(***************************************************************************)
(* The user dashboard of the task tracker (Dashboard.jsx): the board of    *)
(* three status columns built from the "tasks" entry of localStorage, the  *)
(* drag-end handler that moves a task between columns and writes the       *)
(* collection back, the deadline scan with its toasts and audio cue, and   *)
(* the status filter; and the authentication provider that wraps the       *)
(* pages (AuthProvider, with authAPI of utils/api.js): the user it keeps,  *)
(* the four localStorage keys it writes, its mount-time check, login,     *)
(* signup and logout.                                                      *)
(*                                                                         *)
(* Representation.  A task is a record [id, title, progress, deadline].    *)
(* Ids, column names and drop references are strings, as they are compared *)
(* with === in the code.  A calendar date is the string that               *)
(* toISOString().split("T")[0] yields; an instant is [day, hour] in UTC,   *)
(* day being an index into DateStrings.  The localStorage entry is a       *)
(* record [kind, arr]: no entry, a payload JSON.parse rejects, or the JSON *)
(* text of an array.                                                       *)
(*                                                                         *)
(* React.  A handler reads the values of the render it was created in      *)
(* (tasks, taskStatusFilter, filteredTasks); setTasks and                  *)
(* setTaskStatusFilter change the state the hooks hold (hookTasks,         *)
(* hookFilter), which the component sees at the render that follows the    *)
(* event.  An event is handled when the render after the previous one is   *)
(* done: the user interface hands over one event at a time.                *)
(*                                                                         *)
(* The provider.  Its callbacks read localStorage and their arguments, no  *)
(* value of a render, so user and loading are the state its hooks hold; a  *)
(* login or signup is in flight from its call to the settlement of its     *)
(* request, and other operations may run in between.  A stored value or an *)
(* argument is a non-empty string; null is what getItem returns for a key  *)
(* that is not stored.                                                     *)
(***************************************************************************)
EXTENDS Integers, Sequences, FiniteSets, TLC

VARIABLES
  store,          \* localStorage["tasks"]
  hookTasks,      \* state of useState(tasks): column name -> sequence of tasks
  hookFilter,     \* state of useState(taskStatusFilter)
  tasks,          \* tasks as the current render returned it
  taskStatusFilter, \* taskStatusFilter as the current render returned it
  filteredTasks,  \* useMemo of the current render
  phase,          \* "mounting" (load effect pending), "ready", "crashed"
  toasts,         \* toast(...) calls since the mount, in call order
  audioPlays,     \* audioRef.current.play() calls since the mount
  loaded,         \* storedTasks of the load effect of this mount
  clock,          \* the instant of this mount, and the length of its local day
  event,          \* the event handled since the last render, with its inputs
  authStore,      \* localStorage: the keys token, userRole, userId and email
  user,           \* state of useState(user) of the provider
  loading,        \* state of useState(loading) of the provider
  inFlight,       \* the login and signup calls awaiting their response, in call order
  authEvent       \* the operation of the provider that completed last

boardVars == <<store, hookTasks, hookFilter, tasks, taskStatusFilter, filteredTasks,
               phase, toasts, audioPlays, loaded, clock, event>>

authVars == <<authStore, user, loading, inFlight, authEvent>>

vars == <<store, hookTasks, hookFilter, tasks, taskStatusFilter, filteredTasks,
          phase, toasts, audioPlays, loaded, clock, event,
          authStore, user, loading, inFlight, authEvent>>

----------------------------------------------------------------------------
(* Bounds of the model *)

\* most tasks held by the initial store
MaxTasks == 3

\* the tasks the stores of Init are made of: task i of the pool
PoolIds == <<"t1", "t2", "t3", "t4", "t5">>
PoolTitles == <<"alpha", "beta", "gamma", "delta", "epsilon">>
PoolProgress == <<10, 50, 90, 40, 81>>
PoolDeadlines == <<"2026-03-08", "2026-03-09", "none", "2026-03-10", "2026-03-07">>

PoolTask(i) ==
  [id |-> PoolIds[i], title |-> PoolTitles[i], progress |-> PoolProgress[i],
   deadline |-> PoolDeadlines[i]]

PoolPrefix(n) == [i \in 1..n |-> PoolTask(i)]

\* the stores of the runs that exercise the load effect: one task of every
\* progress, and up to MaxScanTasks tasks of every deadline
MaxScanTasks == 2
ProgressRange == 0..100
ScanDeadlines == {"2026-03-07", "2026-03-08", "2026-03-09", "2026-03-10", "none"}

LoadTask(i, p, d) ==
  [id |-> PoolIds[i], title |-> PoolTitles[i], progress |-> p, deadline |-> d]

\* and up to MaxBuildTasks tasks with progress at and next to the limits of
\* the columns, in every order
MaxBuildTasks == 3
BuildProgress == {0, 40, 41, 80, 81, 100}

\* an id carried by a drag event that is the id of no task
GhostId == "ghost"
\* a drop reference that is neither a task id nor a column name
UnknownRefs == {"Archive", ""}
\* no drop target: event.over is null
NullOver == "<null>"

\* the instants the load effect may run at: the UTC day and hour, and by how
\* many hours the local day that starts then is longer than 24 hours
\* (0, or -1 / +1 across a daylight-saving change)
DateStrings == <<"2026-03-07", "2026-03-08", "2026-03-09", "2026-03-10">>
NowDays == {2}
NowHours == {0, 12, 23}
LocalDayShifts == {-1, 0, 1}
Clocks ==
  {[now |-> [day |-> d, hour |-> h], shift |-> sh] :
     d \in NowDays, h \in NowHours, sh \in LocalDayShifts}
\* the clock of the runs that exercise the board: midday, a 24 hour day
BoardClocks == {c \in Clocks : c.now.hour = 12 /\ c.shift = 0}

----------------------------------------------------------------------------
(* Values of the language *)

undefined == "<undefined>"
UndefinedTask == [id |-> undefined, title |-> undefined, progress |-> -1, deadline |-> undefined]
NullTask == [id |-> "<null>", title |-> "<null>", progress |-> -1, deadline |-> "<null>"]

\* !x for the strings of the model
Falsy(x) == x \in {undefined, NullOver, ""}

\* arr.some(task => task.id === id)
SomeTaskHasId(arr, id) == \E i \in 1..Len(arr) : arr[i].id = id

\* arr.find(task => task.id === id): the first such task, or undefined
FindTaskById(arr, id) ==
  LET hits == SelectSeq(arr, LAMBDA task : task.id = id)
  IN IF Len(hits) > 0 THEN hits[1] ELSE UndefinedTask

----------------------------------------------------------------------------
(* The board *)

DEFAULT_FILTER_OPTION == "all"

Columns == {"To Do", "In Progress", "Completed"}

\* Object.keys order: the three keys of the initial state in their literal
\* order, then a key added later (string keys keep insertion order)
KeyOrder == <<"To Do", "In Progress", "Completed", "Archive">>

ObjectKeys(obj) == SelectSeq(KeyOrder, LAMBDA k : k \in DOMAIN obj)

\* useState initial value of tasks
InitialTasks ==
  ("To Do" :> <<>>) @@ ("In Progress" :> <<>>) @@ ("Completed" :> <<>>)

\* the three filter predicates of the load effect
\* a variant: the To Do limit reaches into In Progress
IsToDoWide(task) == task.progress <= 50

IsToDo(task) == task.progress <= 40
\* a variant: the upper bracket of In Progress open at 80
IsInProgressOpen(task) == task.progress > 40 /\ task.progress < 80
IsInProgress(task) == task.progress > 40 /\ task.progress <= 80
IsCompleted(task) == task.progress > 80

\* a variant: each column lists its tasks last to first
Reversed(arr) == [i \in 1..Len(arr) |-> arr[Len(arr) + 1 - i]]
CategorizedTasksReversed(storedTasks) ==
  ("To Do" :> Reversed(SelectSeq(storedTasks, IsToDo))) @@
  ("In Progress" :> Reversed(SelectSeq(storedTasks, IsInProgress))) @@
  ("Completed" :> Reversed(SelectSeq(storedTasks, IsCompleted)))

CategorizedTasks(storedTasks) ==
  ("To Do" :> SelectSeq(storedTasks, IsToDo)) @@
  ("In Progress" :> SelectSeq(storedTasks, IsInProgress)) @@
  ("Completed" :> SelectSeq(storedTasks, IsCompleted))

\* useMemo filteredTasks
FilteredTasks(ts, statusFilter) ==
  IF statusFilter = DEFAULT_FILTER_OPTION THEN ts
  ELSE [k \in {key \in DOMAIN ts : key = statusFilter} |-> ts[k]]

----------------------------------------------------------------------------
(* localStorage and JSON *)

AbsentEntry == [kind |-> "absent", arr |-> <<>>]
MalformedEntry == [kind |-> "malformed", arr |-> <<>>]

\* JSON.stringify of an array of tasks: an undefined element is written as null
JsonStringify(arr) ==
  [kind |-> "json",
   arr |-> [i \in 1..Len(arr) |-> IF arr[i] = UndefinedTask THEN NullTask ELSE arr[i]]]

\* JSON.parse(localStorage.getItem("tasks")): getItem yields null for a missing
\* entry and JSON.parse(null) is null; a payload that is no JSON text throws
JsonParse(entry) ==
  CASE entry.kind = "absent" -> [threw |-> FALSE, isNull |-> TRUE, arr |-> <<>>]
    [] entry.kind = "malformed" -> [threw |-> TRUE, isNull |-> FALSE, arr |-> <<>>]
    [] OTHER -> [threw |-> FALSE, isNull |-> FALSE, arr |-> entry.arr]

\* parsed || []
OrEmpty(parsed) == IF parsed.isNull THEN <<>> ELSE parsed.arr

----------------------------------------------------------------------------
(* The deadline scan *)

\* date.toISOString().split("T")[0]: the UTC calendar date of an instant
ToISODate(instant) == DateStrings[instant.day]

\* tomorrow.setDate(tomorrow.getDate() + 1): the same local wall-clock time on
\* the next local day, which is 24 + shift hours later
SetDatePlusOne(instant, shift) ==
  LET hours == instant.day * 24 + instant.hour + 24 + shift
  IN [day |-> hours \div 24, hour |-> hours % 24]

TodayEvent(task) == [kind |-> "due-today", title |-> task.title]
TomorrowEvent(task) == [kind |-> "due-tomorrow", title |-> task.title]

\* the body of the forEach callback: the events one task raises
DeadlineEvents(task, today, tomorrowStr) ==
  IF task.deadline = today THEN <<TodayEvent(task)>>
  ELSE IF task.deadline = tomorrowStr THEN <<TomorrowEvent(task)>>
  ELSE <<>>

RECURSIVE ForEachDeadline(_, _, _)
ForEachDeadline(arr, today, tomorrowStr) ==
  IF arr = <<>> THEN <<>>
  ELSE DeadlineEvents(Head(arr), today, tomorrowStr)
       \o ForEachDeadline(Tail(arr), today, tomorrowStr)

\* checkDeadlines: the showNotification calls, in order
CheckDeadlines(arr, now, shift) ==
  ForEachDeadline(arr, ToISODate(now), ToISODate(SetDatePlusOne(now, shift)))

\* a variant: the toast without the sound
ShowNotificationsSilent(events) == [toasts |-> events, plays |-> 0]

\* showNotification, once per event: one toast and one audioRef.current.play()
ShowNotifications(events) == [toasts |-> events, plays |-> Len(events)]

----------------------------------------------------------------------------
(* The drag-end handler *)

\* if (!over || active.id === over.id) return;
NoDropOrSelf(activeId, overId) == overId = NullOver \/ activeId = overId

\* Object.keys(ts).find(column => ts[column].some(task => task.id === id))
FindColumn(ts, id) ==
  LET hits == SelectSeq(ObjectKeys(ts), LAMBDA column : SomeTaskHasId(ts[column], id))
  IN IF Len(hits) > 0 THEN hits[1] ELSE undefined

\* a variant: a task found in no column counts as a task of the first column
SourceColumnOrFirst(ts, activeId) ==
  LET found == FindColumn(ts, activeId)
  IN IF Falsy(found) THEN ObjectKeys(ts)[1] ELSE found

SourceColumn(ts, activeId) == FindColumn(ts, activeId)

\* Object.keys(ts).find(...) || over.id
TargetColumn(ts, overId) ==
  LET found == FindColumn(ts, overId)
  IN IF Falsy(found) THEN overId ELSE found

\* a variant: without the test for a move within one column
NothingToMoveAcross(sourceColumn, targetColumn) ==
  Falsy(sourceColumn) \/ Falsy(targetColumn)

\* if (!sourceColumn || !targetColumn || sourceColumn === targetColumn) return;
NothingToMove(sourceColumn, targetColumn) ==
  Falsy(sourceColumn) \/ Falsy(targetColumn) \/ sourceColumn = targetColumn

\* updatedTasks[sourceColumn].filter(task => task.id !== active.id)
WithoutTask(arr, activeId) == SelectSeq(arr, LAMBDA task : task.id # activeId)

\* a variant: the moved task put first
WithTaskFirst(ts, targetColumn, movedTask) ==
  IF targetColumn \in DOMAIN ts THEN <<movedTask>> \o ts[targetColumn]
  ELSE <<movedTask>>

\* [...(updatedTasks[targetColumn] || []), movedTask]
WithTask(ts, targetColumn, movedTask) ==
  IF targetColumn \in DOMAIN ts THEN Append(ts[targetColumn], movedTask)
  ELSE <<movedTask>>

\* the updater passed to setTasks
MoveUpdater(prevTasks, sourceColumn, targetColumn, activeId) ==
  LET movedTask == FindTaskById(prevTasks[sourceColumn], activeId)
      removed == [prevTasks EXCEPT ![sourceColumn] = WithoutTask(@, activeId)]
      appended == WithTask(removed, targetColumn, movedTask)
  IN [k \in DOMAIN removed \cup {targetColumn} |->
        IF k = targetColumn THEN appended ELSE removed[k]]

\* [...tasks["To Do"], ...tasks["In Progress"], ...tasks["Completed"]]
\* a variant: the spread leaves the column Completed out
FlatTasksOpen(ts) == ts["To Do"] \o ts["In Progress"]

FlatTasks(ts) == ts["To Do"] \o ts["In Progress"] \o ts["Completed"]

\* the collection handleDragEnd hands to localStorage.setItem: built from the
\* tasks of the render the handler closes over, not from the updater's result
PersistedByDrag(closureTasks, updatedTasks) == FlatTasks(closureTasks)

----------------------------------------------------------------------------
(* The state machine *)

TaskIdsOn(ts) == UNION {{ts[k][i].id : i \in 1..Len(ts[k])} : k \in DOMAIN ts}

\* inputs of a drag-end event: the draggables and droppables on the page
ActiveIds == TaskIdsOn(tasks) \cup {GhostId}
OverIds == {NullOver} \cup TaskIdsOn(tasks) \cup Columns \cup UnknownRefs

NoEvent == [op |-> "none"]

\* e is a drag-end event (with its task id e.active and its over-reference e.over)
IsDrag(e) == e.op = "drag"

----------------------------------------------------------------------------
(* The authentication provider: values and functions *)

\* most login and signup calls awaiting their response at one time
MaxInFlight == 2

null == "<null>"
\* the user state null
NullUser == [value |-> "null"]

AuthKeys == {"token", "userRole", "userId", "email"}
EmptyAuthStore == [k \in AuthKeys |-> null]

\* the values the four keys may hold when the page is opened
MountAuthStores ==
  {[token |-> t, userRole |-> r, userId |-> u, email |-> e] :
     t \in {null, "jwt0"}, r \in {null, "user"}, u \in {null, "u0"},
     e \in {null, "ann@x.io"}}

\* the arguments of the calls and the answers of the server
Emails == {"ann@x.io", "bob@x.io"}
SignupRoles == {undefined, "admin"}
OkBodies ==
  {[token |-> "jwt1", role |-> r, userId |-> "u1", message |-> undefined] :
     r \in {"user", "admin"}}
ErrorBodies ==
  {[token |-> undefined, role |-> undefined, userId |-> undefined, message |-> m] :
     m \in {undefined, "Invalid credentials"}}
Responses ==
  {[ok |-> TRUE, body |-> b] : b \in OkBodies}
    \cup {[ok |-> FALSE, body |-> b] : b \in ErrorBodies}

\* a || b
Or(a, b) == IF Falsy(a) THEN b ELSE a

\* String(value), as setItem stores it
ToStorageString(value) == IF value = undefined THEN "undefined" ELSE value

GetItem(st, key) == st[key]
SetItem(st, key, value) == [st EXCEPT ![key] = ToStorageString(value)]
RemoveItem(st, key) == [st EXCEPT ![key] = null]

\* a variant: a token alone makes a user
InitialUserByToken(st) ==
  IF ~Falsy(GetItem(st, "token"))
  THEN [email |-> GetItem(st, "email"), role |-> GetItem(st, "userRole"),
        userId |-> GetItem(st, "userId")]
  ELSE NullUser

\* the initializer of useState(user)
InitialUser(st) ==
  LET token == GetItem(st, "token")
      email == GetItem(st, "email")
      role == GetItem(st, "userRole")
      userId == GetItem(st, "userId")
  IN IF ~Falsy(token) /\ ~Falsy(email)
     THEN [email |-> email, role |-> role, userId |-> userId]
     ELSE NullUser

\* isAuthenticated: !!user
IsAuthenticated(u) == u # NullUser

\* a variant: logout leaves the email behind
LoggedOutKeepsEmail(st) ==
  [store |-> RemoveItem(RemoveItem(RemoveItem(st, "token"), "userRole"), "userId"),
   user |-> NullUser]

\* handleLogout: the store and the user it leaves
LoggedOut(st) ==
  [store |-> RemoveItem(RemoveItem(RemoveItem(RemoveItem(st, "token"), "userRole"),
                                   "userId"), "email"),
   user |-> NullUser]

\* a variant: the check leaves a token without email alone
CheckedAuthLenient(st, usr) ==
  LET token == GetItem(st, "token")
      email == GetItem(st, "email")
  IN IF ~Falsy(token) /\ ~Falsy(email)
     THEN [store |-> st,
           user |-> [email |-> email, role |-> GetItem(st, "userRole"),
                     userId |-> GetItem(st, "userId")]]
     ELSE [store |-> st, user |-> usr]

\* the try block of checkAuth: the store and the user it leaves
CheckedAuth(st, usr) ==
  LET token == GetItem(st, "token")
  IN IF ~Falsy(token)
     THEN LET email == GetItem(st, "email")
              role == GetItem(st, "userRole")
              userId == GetItem(st, "userId")
          IN IF ~Falsy(email)
             THEN [store |-> st, user |-> [email |-> email, role |-> role, userId |-> userId]]
             ELSE LoggedOut(st)
     ELSE [store |-> st, user |-> usr]

\* a variant: the answer is taken whatever its status
ApiLoginUnchecked(response) == [threw |-> FALSE, data |-> response.body]

\* authAPI.login, from the response on: the data it returns or the error it
\* throws
ApiLogin(response) ==
  LET data == response.body
  IN IF ~response.ok
     THEN [threw |-> TRUE, error |-> Or(data.message, "Login failed")]
     ELSE [threw |-> FALSE, data |-> data]

\* authAPI.register, from the response on
ApiRegister(response) ==
  LET data == response.body
  IN IF ~response.ok
     THEN [threw |-> TRUE, error |-> Or(data.message, "Registration failed")]
     ELSE [threw |-> FALSE, data |-> data]

\* the default of the parameter role of signup
RoleOrDefault(role) == IF role = undefined THEN "user" ELSE role

\* login after its await: the store and the user it leaves
LoggedIn(st, email, data) ==
  [store |-> SetItem(SetItem(SetItem(SetItem(st, "token", data.token),
                                     "userRole", data.role),
                             "userId", data.userId),
                     "email", email),
   user |-> [email |-> email, role |-> data.role, userId |-> data.userId]]

\* signup after its await
SignedUp(st, email, role, data) ==
  [store |-> SetItem(SetItem(SetItem(SetItem(st, "token", data.token),
                                     "userRole", role),
                             "userId", data.userId),
                     "email", email),
   user |-> [email |-> email, role |-> role, userId |-> data.userId]]

\* arr without its i-th element
WithoutIndex(arr, i) == [j \in 1..(Len(arr) - 1) |-> IF j < i THEN arr[j] ELSE arr[j + 1]]

\* the provider while the dashboard runs: its check is done, nobody is
\* logged in, and the dashboard's code reads none of it
AuthAtRest ==
  /\ authStore = EmptyAuthStore
  /\ user = NullUser
  /\ loading = FALSE
  /\ inFlight = <<>>
  /\ authEvent = NoEvent

----------------------------------------------------------------------------
(* The dashboard: state machine *)

InitStores ==
  {AbsentEntry, MalformedEntry} \cup {JsonStringify(PoolPrefix(n)) : n \in 0..MaxTasks}

\* the first render: every hook at its initial value
MountState ==
  /\ hookTasks = InitialTasks
  /\ hookFilter = DEFAULT_FILTER_OPTION
  /\ tasks = InitialTasks
  /\ taskStatusFilter = DEFAULT_FILTER_OPTION
  /\ filteredTasks = FilteredTasks(InitialTasks, DEFAULT_FILTER_OPTION)
  /\ phase = "mounting"
  /\ toasts = <<>>
  /\ audioPlays = 0
  /\ loaded = <<>>
  /\ event = NoEvent

Init ==
  /\ store \in InitStores
  /\ clock \in BoardClocks
  /\ MountState
  /\ AuthAtRest

\* the load effect, run once after the first render
LoadEffect(now, shift) ==
  /\ phase = "mounting"
  /\ event = NoEvent
  /\ event' = [op |-> "load"]
  /\ UNCHANGED <<store, hookFilter, tasks, taskStatusFilter, filteredTasks, clock>>
  /\ UNCHANGED authVars
  /\ LET parsed == JsonParse(store)
     IN IF parsed.threw
        THEN /\ phase' = "crashed"
             /\ UNCHANGED <<hookTasks, toasts, audioPlays, loaded>>
        ELSE LET storedTasks == OrEmpty(parsed)
                 shown == ShowNotifications(CheckDeadlines(storedTasks, now, shift))
             IN /\ hookTasks' = CategorizedTasks(storedTasks)
                /\ toasts' = toasts \o shown.toasts
                /\ audioPlays' = audioPlays + shown.plays
                /\ loaded' = storedTasks
                /\ phase' = "ready"

Load == LoadEffect(clock.now, clock.shift)

\* the body of handleDragEnd: it reads tasks of the render it was created in,
\* its updater gets the state the hook holds
DragEndEffect(activeId, overId) ==
  /\ UNCHANGED <<hookFilter, tasks, taskStatusFilter, filteredTasks, phase, toasts,
                 audioPlays, loaded, clock>>
  /\ UNCHANGED authVars
  /\ IF NoDropOrSelf(activeId, overId)
     THEN UNCHANGED <<store, hookTasks>>
     ELSE LET sourceColumn == SourceColumn(tasks, activeId)
              targetColumn == TargetColumn(tasks, overId)
          IN IF NothingToMove(sourceColumn, targetColumn)
             THEN UNCHANGED <<store, hookTasks>>
             ELSE /\ hookTasks' = MoveUpdater(hookTasks, sourceColumn, targetColumn, activeId)
                  /\ store' = JsonStringify(PersistedByDrag(tasks, hookTasks'))

\* handleDragEnd, called when the render after the previous event is done
HandleDragEnd(activeId, overId) ==
  /\ phase = "ready"
  /\ event = NoEvent
  /\ event' = [op |-> "drag", active |-> activeId, over |-> overId]
  /\ DragEndEffect(activeId, overId)

\* handleDragEnd, called for a second drag-end before the render that follows
\* the first: the same handler, with the same tasks
HandleDragEndBeforeRender(activeId, overId) ==
  /\ phase = "ready"
  /\ IsDrag(event)
  /\ "first" \notin DOMAIN event
  /\ event' = [op |-> "drag", active |-> activeId, over |-> overId, first |-> event]
  /\ DragEndEffect(activeId, overId)

DragEnd == \E activeId \in ActiveIds, overId \in OverIds : HandleDragEnd(activeId, overId)

DragEndBeforeRender ==
  \E activeId \in ActiveIds, overId \in OverIds : HandleDragEndBeforeRender(activeId, overId)

\* a variant: a click always selects the clicked status
NextStatusFilterSticky(current, status) == status

\* the value the click handler selectStatusFilter(status) sets
NextStatusFilter(current, status) ==
  IF current = status THEN DEFAULT_FILTER_OPTION ELSE status

SelectStatusFilter(status) ==
  /\ phase = "ready"
  /\ event = NoEvent
  /\ event' = [op |-> "filter", status |-> status]
  /\ hookFilter' = NextStatusFilter(taskStatusFilter, status)
  /\ UNCHANGED <<store, hookTasks, tasks, taskStatusFilter, filteredTasks, phase,
                 toasts, audioPlays, loaded, clock>>
  /\ UNCHANGED authVars

SelectFilter == \E status \in Columns : SelectStatusFilter(status)

\* the columns of the page read task.id of every entry they show: an
\* undefined entry makes the render throw
RenderThrows(shown) ==
  \E k \in DOMAIN shown : \E i \in 1..Len(shown[k]) : shown[k][i] = UndefinedTask

\* the render after an event: the component body runs with the state the
\* hooks hold
Render ==
  /\ event # NoEvent
  /\ event' = NoEvent
  /\ IF RenderThrows(FilteredTasks(hookTasks, hookFilter))
     THEN /\ phase' = "crashed"
          /\ UNCHANGED <<tasks, taskStatusFilter, filteredTasks>>
     ELSE /\ tasks' = hookTasks
          /\ taskStatusFilter' = hookFilter
          /\ filteredTasks' = FilteredTasks(hookTasks, hookFilter)
          /\ UNCHANGED phase
  /\ UNCHANGED <<store, hookTasks, hookFilter, toasts, audioPlays, loaded, clock>>
  /\ UNCHANGED authVars

\* the page is loaded again, at some instant: every hook starts over,
\* localStorage stays
Reload ==
  /\ phase # "mounting"
  /\ event = NoEvent
  /\ clock' \in Clocks
  /\ hookTasks' = InitialTasks
  /\ hookFilter' = DEFAULT_FILTER_OPTION
  /\ tasks' = InitialTasks
  /\ taskStatusFilter' = DEFAULT_FILTER_OPTION
  /\ filteredTasks' = FilteredTasks(InitialTasks, DEFAULT_FILTER_OPTION)
  /\ phase' = "mounting"
  /\ toasts' = <<>>
  /\ audioPlays' = 0
  /\ loaded' = <<>>
  /\ UNCHANGED <<store, event>>
  /\ UNCHANGED authVars

\* one mount of the dashboard: the load effect, then drags and filter clicks
Next == Load \/ DragEnd \/ SelectFilter \/ Render

Spec == Init /\ [][Next]_vars

\* mounts of the dashboard over the stores and instants of the load effect
LoadStores ==
  {AbsentEntry, MalformedEntry}
    \cup {JsonStringify(<<LoadTask(1, p, "none")>>) : p \in ProgressRange}
    \cup UNION {{JsonStringify([i \in 1..n |-> LoadTask(i, PoolProgress[i], ds[i])]) :
                   ds \in [1..n -> ScanDeadlines]} : n \in 0..MaxScanTasks}
    \cup UNION {{JsonStringify([i \in 1..n |-> LoadTask(i, ps[i], "none")]) :
                   ps \in [1..n -> BuildProgress]} : n \in 0..MaxBuildTasks}

InitLoad ==
  /\ store \in LoadStores
  /\ clock \in Clocks
  /\ MountState
  /\ AuthAtRest

NextLoad == Load \/ Render \/ Reload

SpecLoad == InitLoad /\ [][NextLoad]_vars

\* mounts of the dashboard over the stores of up to MaxFewTasks tasks
MaxFewTasks == 2

InitFew ==
  /\ store \in {JsonStringify(PoolPrefix(n)) : n \in 0..MaxFewTasks}
  /\ clock \in BoardClocks
  /\ MountState
  /\ AuthAtRest

\* drags, then the page is loaded again at the same instant
Remount == Reload /\ clock' = clock

NextReload == Load \/ DragEnd \/ Render \/ Remount

SpecReload == InitFew /\ [][NextReload]_vars

\* one mount in which a second drag-end may be handled before the render
\* that follows the first
NextConc == Load \/ DragEnd \/ DragEndBeforeRender \/ Render

SpecConc == InitFew /\ [][NextConc]_vars

----------------------------------------------------------------------------
(* The authentication provider: state machine *)

\* the dashboard while the provider runs: not on the page
BoardAtRest ==
  /\ store = AbsentEntry
  /\ clock \in BoardClocks
  /\ MountState

InitAuth ==
  /\ authStore \in MountAuthStores
  /\ user = InitialUser(authStore)
  /\ loading = TRUE
  /\ inFlight = <<>>
  /\ authEvent = NoEvent
  /\ BoardAtRest

\* the mount effect: checkAuth
CheckAuth ==
  /\ loading = TRUE
  /\ LET checked == CheckedAuth(authStore, user)
     IN /\ authStore' = checked.store
        /\ user' = checked.user
  /\ loading' = FALSE
  /\ authEvent' = [op |-> "checkAuth", token |-> GetItem(authStore, "token"),
                   email |-> GetItem(authStore, "email")]
  /\ UNCHANGED inFlight
  /\ UNCHANGED boardVars

\* login(email, password, role) up to its await; the children that call it
\* are rendered when loading is false
CallLogin(email) ==
  /\ loading = FALSE
  /\ Len(inFlight) < MaxInFlight
  /\ inFlight' = Append(inFlight, [op |-> "login", email |-> email, role |-> undefined])
  /\ UNCHANGED <<authStore, user, loading, authEvent>>
  /\ UNCHANGED boardVars

\* signup(fullName, email, password, role) up to its await
CallSignup(email, role) ==
  /\ loading = FALSE
  /\ Len(inFlight) < MaxInFlight
  /\ inFlight' = Append(inFlight, [op |-> "signup", email |-> email,
                                   role |-> RoleOrDefault(role)])
  /\ UNCHANGED <<authStore, user, loading, authEvent>>
  /\ UNCHANGED boardVars

\* the i-th call in flight is a login and gets its response
LoginSettles(i, response) ==
  /\ i \in 1..Len(inFlight)
  /\ inFlight[i].op = "login"
  /\ inFlight' = WithoutIndex(inFlight, i)
  /\ LET result == ApiLogin(response)
     IN IF result.threw
        THEN /\ authEvent' = [op |-> "login", email |-> inFlight[i].email,
                              response |-> response, threw |-> TRUE,
                              error |-> result.error]
             /\ UNCHANGED <<authStore, user>>
        ELSE LET done == LoggedIn(authStore, inFlight[i].email, result.data)
             IN /\ authStore' = done.store
                /\ user' = done.user
                /\ authEvent' = [op |-> "login", email |-> inFlight[i].email,
                                 response |-> response, threw |-> FALSE,
                                 error |-> undefined]
  /\ UNCHANGED loading
  /\ UNCHANGED boardVars

\* the i-th call in flight is a signup and gets its response
SignupSettles(i, response) ==
  /\ i \in 1..Len(inFlight)
  /\ inFlight[i].op = "signup"
  /\ inFlight' = WithoutIndex(inFlight, i)
  /\ LET result == ApiRegister(response)
     IN IF result.threw
        THEN /\ authEvent' = [op |-> "signup", email |-> inFlight[i].email,
                              response |-> response, threw |-> TRUE,
                              error |-> result.error]
             /\ UNCHANGED <<authStore, user>>
        ELSE LET done == SignedUp(authStore, inFlight[i].email, inFlight[i].role,
                                  result.data)
             IN /\ authStore' = done.store
                /\ user' = done.user
                /\ authEvent' = [op |-> "signup", email |-> inFlight[i].email,
                                 response |-> response, threw |-> FALSE,
                                 error |-> undefined]
  /\ UNCHANGED loading
  /\ UNCHANGED boardVars

\* logout: handleLogout
HandleLogout ==
  /\ loading = FALSE
  /\ LET done == LoggedOut(authStore)
     IN /\ authStore' = done.store
        /\ user' = done.user
  /\ authEvent' = [op |-> "logout", user |-> user]
  /\ UNCHANGED <<loading, inFlight>>
  /\ UNCHANGED boardVars

\* the page is loaded again: the provider mounts anew over the store, the
\* calls in flight are gone
AuthReload ==
  /\ loading = FALSE
  /\ user' = InitialUser(authStore)
  /\ loading' = TRUE
  /\ inFlight' = <<>>
  /\ authEvent' = NoEvent
  /\ UNCHANGED authStore
  /\ UNCHANGED boardVars

Login == \E email \in Emails : CallLogin(email)
Signup == \E email \in Emails, role \in SignupRoles : CallSignup(email, role)
LoginResponse == \E i \in 1..MaxInFlight, response \in Responses : LoginSettles(i, response)
SignupResponse == \E i \in 1..MaxInFlight, response \in Responses : SignupSettles(i, response)

NextAuth ==
  CheckAuth \/ Login \/ Signup \/ LoginResponse \/ SignupResponse \/ HandleLogout
    \/ AuthReload

SpecAuth == InitAuth /\ [][NextAuth]_vars

----------------------------------------------------------------------------
(* Properties *)

HoldsId(arr, id) == \E i \in 1..Len(arr) : arr[i].id = id
ColumnsHolding(ts, id) == {k \in DOMAIN ts : HoldsId(ts[k], id)}
OnBoard(ts, id) == ColumnsHolding(ts, id) # {}
ColumnOf(ts, id) == CHOOSE k \in ColumnsHolding(ts, id) : TRUE
TaskOf(ts, id) ==
  LET k == ColumnOf(ts, id)
  IN ts[k][CHOOSE i \in 1..Len(ts[k]) : ts[k][i].id = id]
OthersOf(arr, id) == SelectSeq(arr, LAMBDA t : t.id # id)
ThreeEmptyColumns == [c \in Columns |-> <<>>]
ColumnsInOrder(ts) == ts["To Do"] \o ts["In Progress"] \o ts["Completed"]

\* C1: after the board build every loaded task with progress p in 0..100 is in
\* exactly one column: To Do iff p <= 40, In Progress iff 40 < p <= 80,
\* Completed iff p > 80.
C1_BuildPartitionsProgress ==
  phase = "ready" =>
    \A i \in 1..Len(loaded) :
      LET p == loaded[i].progress
          In(c) == c \in DOMAIN hookTasks
                     /\ \E j \in 1..Len(hookTasks[c]) : hookTasks[c][j] = loaded[i]
      IN p \in 0..100 =>
           /\ In("To Do") <=> p <= 40
           /\ In("In Progress") <=> (40 < p /\ p <= 80)
           /\ In("Completed") <=> p > 80
           /\ Cardinality({c \in DOMAIN hookTasks : In(c)}) = 1

\* C1 witness: a task of progress 80 was loaded and stands in In Progress.
C1_Witness ==
  /\ phase = "ready"
  /\ Len(loaded) = 1
  /\ loaded[1].progress = 80
  /\ hookTasks["In Progress"] = loaded
  /\ tasks = hookTasks

\* C2: a drag-end of task T, standing in column A, over column B or over a task
\* standing in B, with B # A, takes T out of A, makes T the last task of B,
\* keeps the order of the other tasks of A and of B, leaves every other column
\* as it was and leaves T's record, its progress included, as it was.
C2_MoveAppendsToTarget ==
  [][(/\ IsDrag(event')
      /\ OnBoard(hookTasks, event'.active)
      /\ event'.over \in Columns \/ OnBoard(hookTasks, event'.over)
      /\ LET B == IF event'.over \in Columns THEN event'.over
                  ELSE ColumnOf(hookTasks, event'.over)
         IN B # ColumnOf(hookTasks, event'.active))
     => LET T == event'.active
            A == ColumnOf(hookTasks, T)
            B == IF event'.over \in Columns THEN event'.over
                 ELSE ColumnOf(hookTasks, event'.over)
        IN /\ DOMAIN hookTasks' = DOMAIN hookTasks
           /\ hookTasks'[A] = OthersOf(hookTasks[A], T)
           /\ ~HoldsId(hookTasks'[A], T)
           /\ hookTasks'[B] = Append(hookTasks[B], TaskOf(hookTasks, T))
           /\ \A k \in DOMAIN hookTasks \ {A, B} : hookTasks'[k] = hookTasks[k]
           /\ TaskOf(hookTasks', T).progress = TaskOf(hookTasks, T).progress]_vars

\* C2 witness: task t2 (progress 50) was dragged from In Progress, where the
\* page still shows it, onto task t3 of Completed and is now the last task of
\* Completed.
C2_Witness ==
  /\ IsDrag(event) /\ event.active = "t2" /\ event.over = "t3"
  /\ tasks["In Progress"] = <<PoolTask(2)>>
  /\ hookTasks["To Do"] = <<PoolTask(1)>>
  /\ hookTasks["In Progress"] = <<>>
  /\ hookTasks["Completed"] = <<PoolTask(3), PoolTask(2)>>
  /\ PoolTask(2).progress = 50

\* C3: after a drag-end that changes the board, the tasks entry of the store is
\* the JSON text of the board after the move, To Do then In Progress then
\* Completed.
C3_StoreHoldsMovedBoard ==
  [][(IsDrag(event') /\ hookTasks' # hookTasks)
     => store' = [kind |-> "json", arr |-> ColumnsInOrder(hookTasks')]]_vars

\* C4: a drag-end of a task of the board over a reference that is neither a
\* task id of the board nor a column name leaves the board as it was, and the
\* columns of the board are always exactly To Do, In Progress and Completed.
C4_UnknownTargetIsNoOp ==
  /\ [](DOMAIN hookTasks = Columns)
  /\ [][(/\ IsDrag(event')
         /\ OnBoard(hookTasks, event'.active)
         /\ event'.over # NullOver
         /\ event'.over \notin Columns
         /\ ~OnBoard(hookTasks, event'.over))
        => hookTasks' = hookTasks]_vars

\* C5: a drag-end whose task id is in no column leaves the board and the store
\* as they were, whatever the over-reference.
C5_UnknownTaskIsNoOp ==
  [][(IsDrag(event') /\ ~OnBoard(hookTasks, event'.active))
     => (hookTasks' = hookTasks /\ store' = store)]_vars

\* C5 witness: the id of no task was dragged over the column Completed of a
\* board that holds tasks.
C5_Witness ==
  /\ IsDrag(event) /\ event.active = GhostId /\ event.over = "Completed"
  /\ hookTasks["To Do"] # <<>>
  /\ ~OnBoard(hookTasks, GhostId)
  /\ hookTasks = tasks

\* C6: a drag-end of a task of the board with no drop target, over itself, over
\* the name of its own column or over another task of its own column leaves
\* every column with the same tasks in the same order.
C6_SameColumnIsNoOp ==
  [][(/\ IsDrag(event')
      /\ OnBoard(hookTasks, event'.active)
      /\ \/ event'.over = NullOver
         \/ event'.over = event'.active
         \/ event'.over = ColumnOf(hookTasks, event'.active)
         \/ /\ OnBoard(hookTasks, event'.over)
            /\ ColumnOf(hookTasks, event'.over) = ColumnOf(hookTasks, event'.active))
     => hookTasks' = hookTasks]_vars

\* C6 witness: t1 was dragged over t2 while both stood in To Do, t1 first.
C6_Witness ==
  /\ IsDrag(event) /\ event.active = "t1" /\ event.over = "t2"
  /\ tasks["To Do"] = <<PoolTask(1), PoolTask(2)>>
  /\ hookTasks = tasks

\* C7: the load effect run on a store with no tasks entry or with a payload
\* that is no JSON text ends with an empty collection and three empty columns.
C7_LoadNeverFails ==
  (event.op = "load" /\ store.kind \in {"absent", "malformed"})
    => /\ phase = "ready"
       /\ loaded = <<>>
       /\ hookTasks = ThreeEmptyColumns

\* C8: the notifications of a load are, in task order, one due-today event for
\* each task whose deadline is the date of the mount, one due-tomorrow event
\* for each task whose deadline is the date after it, and nothing else.
DueKind(task, today) ==
  IF task.deadline = DateStrings[today] THEN "due-today"
  ELSE IF task.deadline = DateStrings[today + 1] THEN "due-tomorrow"
  ELSE "none"

DueEvents(arr, today) ==
  LET due == SelectSeq(arr, LAMBDA t : DueKind(t, today) # "none")
  IN [i \in 1..Len(due) |-> [kind |-> DueKind(due[i], today), title |-> due[i].title]]

C8_ScanEmitsTodayAndTomorrow ==
  phase = "ready" => toasts = DueEvents(loaded, clock.now.day)

\* C9: notifications are raised by the load effect alone, at most one per
\* loaded task: a drag-end or a filter click raises none, and each
\* notification plays the sound exactly once.
C9_ScanOnlyOnLoad ==
  /\ [](/\ audioPlays = Len(toasts)
        /\ Len(toasts) <= Len(loaded)
        /\ \A i, j \in 1..Len(toasts) : toasts[i].title = toasts[j].title => i = j)
  /\ [][(toasts' # toasts \/ audioPlays' # audioPlays) => event'.op = "load"]_vars
  /\ [][(event'.op \in {"drag", "filter"})
        => (toasts' = toasts /\ audioPlays' = audioPlays)]_vars

\* C9 witness: two notifications were raised with two sounds, and a drag-end
\* that moved t1 has been handled since.
C9_Witness ==
  /\ IsDrag(event) /\ event.active = "t1"
  /\ HoldsId(tasks["To Do"], "t1")
  /\ ~HoldsId(hookTasks["To Do"], "t1")
  /\ Len(toasts) = 2
  /\ audioPlays = 2

\* C10: with the filter "all" the view is the whole board, the three columns
\* included; with the filter X the view is column X alone; a click on X
\* selects X, or "all" when X is the filter already, and the next render shows
\* the selection; a click changes neither the board nor the store.
C10_FilterToggles ==
  /\ [](/\ taskStatusFilter \in Columns \cup {"all"}
        /\ taskStatusFilter = "all"
             => (filteredTasks = tasks /\ Columns \subseteq DOMAIN filteredTasks)
        /\ taskStatusFilter \in Columns
             => /\ DOMAIN filteredTasks = {taskStatusFilter}
                /\ filteredTasks[taskStatusFilter] = tasks[taskStatusFilter]
        /\ event = NoEvent => taskStatusFilter = hookFilter)
  /\ [][(event'.op = "filter")
        => /\ hookFilter' =
                (IF taskStatusFilter = event'.status THEN "all" ELSE event'.status)
           /\ hookTasks' = hookTasks
           /\ store' = store]_vars

\* C10 witness: In Progress is the filter on the page, its column holds a
\* task, and a second click on In Progress has set the filter to "all".
C10_Witness ==
  /\ event.op = "filter" /\ event.status = "In Progress"
  /\ taskStatusFilter = "In Progress"
  /\ DOMAIN filteredTasks = {"In Progress"}
  /\ tasks["In Progress"] # <<>>
  /\ hookFilter = "all"

\* C11: the board built from the flattening (To Do, then In Progress, then
\* Completed) of a built board has the same three columns as that board, each
\* with the same set of tasks.
MembersOf(arr) == {arr[i] : i \in 1..Len(arr)}

C11_RebuildKeepsColumns ==
  (phase = "ready" /\ event.op = "load") =>
    LET rebuilt == CategorizedTasks(FlatTasks(hookTasks))
    IN /\ DOMAIN rebuilt = DOMAIN hookTasks
       /\ DOMAIN rebuilt = Columns
       /\ \A c \in Columns : MembersOf(rebuilt[c]) = MembersOf(hookTasks[c])

\* C11 witness: a board was built from a collection whose order is not the
\* order of its flattening (a Completed task loaded before a To Do task), and
\* two of its columns hold tasks.
C11_Witness ==
  /\ phase = "ready" /\ event.op = "load"
  /\ Len(loaded) = 3
  /\ loaded[1].progress = 81 /\ loaded[2].progress = 40 /\ loaded[3].progress = 100
  /\ FlatTasks(hookTasks) # loaded
  /\ Len(hookTasks["Completed"]) = 2
  /\ Len(hookTasks["To Do"]) = 1

\* C12: when logout has completed, none of the keys token, userRole, userId
\* and email is stored, the user is null and isAuthenticated is false,
\* whatever was stored and whoever was logged in before.
C12_LogoutClears ==
  authEvent.op = "logout" =>
    /\ \A key \in AuthKeys : GetItem(authStore, key) = null
    /\ user = NullUser
    /\ ~IsAuthenticated(user)

\* C12 witness: logout was called while a user was logged in and a signup was
\* in flight, and has left the store empty.
C12_Witness ==
  /\ authEvent.op = "logout"
  /\ IsAuthenticated(authEvent.user)
  /\ authEvent.user.role = "admin"
  /\ Len(inFlight) = 1
  /\ authStore = EmptyAuthStore
  /\ user = NullUser

\* C13: after the build and after every drag-end, every loaded task stands in
\* exactly one of the columns To Do, In Progress and Completed, once.
Occurrences(arr, id) == Cardinality({i \in 1..Len(arr) : arr[i].id = id})

C13_EachTaskInOneColumn ==
  phase = "ready" =>
    \A i \in 1..Len(loaded) :
      /\ Cardinality({c \in Columns : HoldsId(hookTasks[c], loaded[i].id)}) = 1
      /\ \A c \in Columns : Occurrences(hookTasks[c], loaded[i].id) <= 1

\* C14: in every column of a built board the tasks stand in the order they
\* have in the loaded collection, and every loaded task whose progress is an
\* integer of 0..100 stands in some column.
PositionIn(arr, id) == CHOOSE i \in 1..Len(arr) : arr[i].id = id

C14_BuildIsStable ==
  phase = "ready" =>
    /\ \A c \in DOMAIN hookTasks :
         \A j, k \in 1..Len(hookTasks[c]) :
           j < k => PositionIn(loaded, hookTasks[c][j].id)
                      < PositionIn(loaded, hookTasks[c][k].id)
    /\ \A i \in 1..Len(loaded) :
         loaded[i].progress \in 0..100 => OnBoard(hookTasks, loaded[i].id)

\* C14 witness: three tasks were loaded, the first and the third of them stand
\* in To Do in that order and the second stands in Completed.
C14_Witness ==
  /\ phase = "ready"
  /\ Len(loaded) = 3
  /\ loaded[1].progress = 40 /\ loaded[2].progress = 100 /\ loaded[3].progress = 0
  /\ hookTasks["To Do"] = <<loaded[1], loaded[3]>>
  /\ hookTasks["Completed"] = <<loaded[2]>>

\* C15: whatever drag-ends were handled before the page was loaded again, the
\* board built by a load has the three columns and every task on it stands in
\* the column of its progress: To Do up to 40, In Progress up to 80, Completed
\* above.
ProgressColumn(p) ==
  IF p <= 40 THEN "To Do" ELSE IF p <= 80 THEN "In Progress" ELSE "Completed"

C15_ReloadForgetsMoves ==
  (phase = "ready" /\ event.op = "load") =>
    /\ DOMAIN hookTasks = Columns
    /\ \A c \in DOMAIN hookTasks :
         \A j \in 1..Len(hookTasks[c]) : ProgressColumn(hookTasks[c][j].progress) = c
    /\ \A i \in 1..Len(loaded) :
         HoldsId(hookTasks[ProgressColumn(loaded[i].progress)], loaded[i].id)

\* C15 witness: the store was written by drag-ends that had moved t1 (progress
\* 10) behind t2 (progress 50) on the board, the page was loaded again, and t1
\* stands in To Do.
C15_Witness ==
  /\ phase = "ready" /\ event.op = "load"
  /\ loaded = <<PoolTask(2), PoolTask(1)>>
  /\ hookTasks["To Do"] = <<PoolTask(1)>>
  /\ hookTasks["In Progress"] = <<PoolTask(2)>>
  /\ PoolTask(1).progress = 10

\* C16: the collection a drag-end writes to the store holds the tasks of the
\* loaded collection, by id, no less and no more.
IdsOf(arr) == {arr[i].id : i \in 1..Len(arr)}

C16_WriteKeepsTaskSet ==
  [][(IsDrag(event') /\ hookTasks' # hookTasks)
     => (store'.kind = "json" /\ IdsOf(store'.arr) = IdsOf(loaded))]_vars

\* C17: after two drag-ends handled against the same rendered board, the
\* board holds no undefined entry and holds every loaded task exactly once.
OccurrencesOnBoard(ts, id) ==
  LET keys == {k \in DOMAIN ts : HoldsId(ts[k], id)}
  IN IF Cardinality(keys) = 1
     THEN Occurrences(ts[CHOOSE k \in keys : TRUE], id)
     ELSE Cardinality(keys)

C17_TwoDragEndsKeepBoard ==
  (IsDrag(event) /\ "first" \in DOMAIN event) =>
    /\ \A k \in DOMAIN hookTasks :
         \A i \in 1..Len(hookTasks[k]) : hookTasks[k][i] # UndefinedTask
    /\ \A i \in 1..Len(loaded) : OccurrencesOnBoard(hookTasks, loaded[i].id) = 1

\* C18: whenever the user is not null (isAuthenticated is true), a token and
\* an email are stored.
C18_UserImpliesStoredKeys ==
  IsAuthenticated(user) =>
    /\ GetItem(authStore, "token") # null
    /\ GetItem(authStore, "email") # null

\* C18 witness: a login of bob has succeeded over a store that held the keys
\* of ann's session, while another call is in flight; bob is the user and his
\* email and the new token are stored.
C18_Witness ==
  /\ authEvent.op = "login" /\ ~authEvent.threw
  /\ IsAuthenticated(user)
  /\ user.email = "bob@x.io"
  /\ GetItem(authStore, "email") = "bob@x.io"
  /\ GetItem(authStore, "token") = "jwt1"
  /\ Len(inFlight) = 1

\* C19: a login or signup whose request gets a response that is not a success
\* throws an error to its caller and leaves the four stored keys and the user
\* as they were.
C19_FailedCallChangesNothing ==
  [][(/\ authEvent'.op \in {"login", "signup"}
      /\ Len(inFlight') < Len(inFlight)
      /\ ~authEvent'.response.ok)
     => /\ authEvent'.threw
        /\ authEvent'.error # undefined
        /\ \A key \in AuthKeys : GetItem(authStore', key) = GetItem(authStore, key)
        /\ user' = user]_vars

\* C19 witness: bob's login was refused with no message while ann was logged
\* in; the call threw "Login failed" and ann's session is still in place.
C19_Witness ==
  /\ authEvent.op = "login" /\ authEvent.email = "bob@x.io"
  /\ ~authEvent.response.ok
  /\ authEvent.threw
  /\ authEvent.error = "Login failed"
  /\ IsAuthenticated(user)
  /\ user.email = "ann@x.io"
  /\ GetItem(authStore, "token") = "jwt0"
  /\ GetItem(authStore, "email") = "ann@x.io"

\* C20: when the mount-time check has run, loading is false, and it stays
\* false while the provider is mounted; if the check found a token stored and
\* no email stored, none of the four keys is stored and the user is null.
C20_CheckEndsLoading ==
  /\ authEvent # NoEvent => loading = FALSE
  /\ authEvent.op = "checkAuth" =>
       /\ loading = FALSE
       /\ (authEvent.token # null /\ authEvent.email = null) =>
            /\ \A key \in AuthKeys : GetItem(authStore, key) = null
            /\ user = NullUser

\* C20 witness: the check found the token jwt0 and no email, and has left an
\* empty store, no user and loading false.
C20_Witness ==
  /\ authEvent.op = "checkAuth"
  /\ authEvent.token = "jwt0"
  /\ authEvent.email = null
  /\ authStore = EmptyAuthStore
  /\ user = NullUser
  /\ loading = FALSE

====
